---- MODULE Spec2Model ----
(***************************************************************************)
(* Recurring-transaction generation of the finance tracker                 *)
(* (src/src/services/transactionService.ts, second service object, lines   *)
(* 556-1127) over the tables of the reset migration (src/unnamed/part_002).*)
(*                                                                         *)
(* Date strings ('yyyy-MM-dd', as stored in the tables) are the integers   *)
(* yyyymmdd; Date objects (what date-fns computes with) are records        *)
(* [year, month, day].  parseISO and format convert between the two.       *)
(* Every store round trip of a service method is one step of a call.       *)
(***************************************************************************)
EXTENDS Integers, Sequences, FiniteSets, Bags, TLC

\* ------------------------------------------------------------------------
\* Bounds of the model

\* last date string of the modelled calendar window; later dates are
\* collapsed into the single Date object Beyond and their rows are not kept
MaxDate == 20240410

\* number of rows the recurring_transactions table can hold
MaxTemplates == 2

\* number of service calls started in one behaviour
MaxCalls == 3

\* every account balance is kept within -MaxBalance .. MaxBalance
MaxBalance == 2

\* number of accounts the user can have
MaxAccounts == 2

\* number of ids one deleteMultipleTransactions call is given
MaxIds == 2

\* the clock: the date every call of the behaviour sees as "today"
Today == 20240315

\* SQL NULL / JavaScript null or undefined in a date or id column
NULL == 0

\* user.id of the signed-in user (supabase.auth.getUser())
User == 1

\* ------------------------------------------------------------------------
\* Calendar (date-fns on local-midnight Date objects)

IsLeapYear(y) == (y % 4 = 0 /\ y % 100 # 0) \/ y % 400 = 0

DaysInMonth(y, m) ==
  IF m = 2 THEN (IF IsLeapYear(y) THEN 29 ELSE 28)
  ELSE IF m \in {4, 6, 9, 11} THEN 30 ELSE 31

parseISO(s) == [year |-> s \div 10000, month |-> (s \div 100) % 100, day |-> s % 100]

format(d) == d.year * 10000 + d.month * 100 + d.day

isBefore(a, b) == format(a) < format(b)

\* Date.setDate with a day outside the month: the fields are normalised
RECURSIVE Normalise(_, _, _)
Normalise(y, m, d) ==
  IF d > DaysInMonth(y, m)
  THEN (IF m = 12 THEN Normalise(y + 1, 1, d - DaysInMonth(y, m))
        ELSE Normalise(y, m + 1, d - DaysInMonth(y, m)))
  ELSE IF d < 1
  THEN (IF m = 1 THEN Normalise(y - 1, 12, d + DaysInMonth(y - 1, 12))
        ELSE Normalise(y, m - 1, d + DaysInMonth(y, m - 1)))
  ELSE [year |-> y, month |-> m, day |-> d]

addDays(date, amount) == Normalise(date.year, date.month, date.day + amount)

addWeeks(date, amount) == addDays(date, amount * 7)

\* the day of month is kept unless the target month is shorter, then the
\* last day of the target month is returned
addMonths(date, amount) ==
  LET total == date.year * 12 + (date.month - 1) + amount
      y     == total \div 12
      m     == (total % 12) + 1
      dim   == DaysInMonth(y, m)
  IN  [year |-> y, month |-> m, day |-> IF date.day >= dim THEN dim ELSE date.day]

addYears(date, amount) == addMonths(date, amount * 12)

\* the Date object that stands for every date after the calendar window: a
\* loop that has left the window stays on it (the loop goes on, its dates
\* are no longer told apart)
Beyond == addDays(parseISO(MaxDate), 1)

Clip(date) == IF format(date) > MaxDate THEN Beyond ELSE date

\* mutant of getNextDate: the daily case steps one day, whatever the interval
getNextDateEveryDay(recurring, currentDate) ==
  Clip(CASE recurring.frequency = "daily"   -> addDays(currentDate, 1)
         [] recurring.frequency = "weekly"  -> addWeeks(currentDate, recurring.interval)
         [] recurring.frequency = "monthly" -> addMonths(currentDate, recurring.interval)
         [] recurring.frequency = "yearly"  -> addYears(currentDate, recurring.interval)
         [] OTHER                           -> addMonths(currentDate, recurring.interval))

getNextDate(recurring, currentDate) ==
  Clip(CASE recurring.frequency = "daily"   -> addDays(currentDate, recurring.interval)
         [] recurring.frequency = "weekly"  -> addWeeks(currentDate, recurring.interval)
         [] recurring.frequency = "monthly" -> addMonths(currentDate, recurring.interval)
         [] recurring.frequency = "yearly"  -> addYears(currentDate, recurring.interval)
         [] OTHER                           -> addMonths(currentDate, recurring.interval))

\* ------------------------------------------------------------------------
\* State

VARIABLES
  recurring_transactions, \* the recurring_transactions table: row i has id i
  transactions,           \* the transactions table: a bag of rows (the uuid of a
                          \* row is not kept, equal rows are counted)
  balance,                \* accounts.balance of each account of the user
  calls,                  \* the service calls in progress, per caller
  started,                \* number of service calls started so far
  settled,                \* history: templates whose last store event is the
                          \* successful end of a generateTransactionsForRecurring
  removed                 \* history: <<template id, date>> of the deleted rows
                          \* that were dated on or before the watermark

vars == <<recurring_transactions, transactions, balance, calls, started, settled, removed>>

Callers == {1, 2}

\* what the form (and any caller of the service) can ask
\* createRecurringTransaction for
TemplateInputs ==
  { [frequency |-> "daily",   interval |-> 2, start_date |-> 20240101, end_date |-> 20240107,
     type |-> "expense", amount |-> 1, description |-> "academia"],
    [frequency |-> "daily",   interval |-> 2, start_date |-> 20240311, end_date |-> 20240317,
     type |-> "expense", amount |-> 1, description |-> "academia"],
    [frequency |-> "monthly", interval |-> 1, start_date |-> 20240101, end_date |-> NULL,
     type |-> "income",  amount |-> 1, description |-> "salario"],
    [frequency |-> "monthly", interval |-> 1, start_date |-> 20240131, end_date |-> 20240410,
     type |-> "expense", amount |-> 1, description |-> "aluguel"],
    [frequency |-> "yearly",  interval |-> 1, start_date |-> 20230301, end_date |-> 20240310,
     type |-> "expense", amount |-> 1, description |-> "seguro"],
    [frequency |-> "weekly",  interval |-> 2, start_date |-> 20240110, end_date |-> 20240105,
     type |-> "income",  amount |-> 1, description |-> "salario"] }

TemplateIds == 1 .. Len(recurring_transactions)

NoDate == [year |-> 0, month |-> 0, day |-> 0]

NoRecurring ==
  [id |-> 0, frequency |-> "", interval |-> 0, start_date |-> NULL, end_date |-> NULL,
   last_generated_date |-> NULL, type |-> "", amount |-> 0, description |-> "",
   category_id |-> NULL, account_id |-> NULL, user_id |-> NULL]

NoTransaction ==
  [recurring_transaction_id |-> NULL, date |-> NULL, type |-> "", amount |-> 0,
   description |-> "", category_id |-> NULL, account_id |-> NULL, user_id |-> NULL]

IdleCall ==
  [op |-> "none", pc |-> "idle", recurring |-> NoRecurring,
   currentDate |-> NoDate, lastGeneratedDate |-> NoDate, queue |-> <<>>,
   created |-> 0, before |-> EmptyBag, rerun |-> FALSE,
   selected |-> {}, processed |-> {}, retry |-> FALSE, afterCreate |-> FALSE,
   transaction |-> NoTransaction, account |-> NULL]

\* the row of template id as a caller holds it after reading it
Snapshot(id) ==
  [id |-> id,
   frequency |-> recurring_transactions[id].frequency,
   interval |-> recurring_transactions[id].interval,
   start_date |-> recurring_transactions[id].start_date,
   end_date |-> recurring_transactions[id].end_date,
   last_generated_date |-> recurring_transactions[id].last_generated_date,
   type |-> recurring_transactions[id].type,
   amount |-> recurring_transactions[id].amount,
   description |-> recurring_transactions[id].description,
   category_id |-> recurring_transactions[id].category_id,
   account_id |-> recurring_transactions[id].account_id,
   user_id |-> recurring_transactions[id].user_id]

Init ==
  /\ recurring_transactions = <<>>
  /\ transactions = EmptyBag
  /\ balance = [a \in {1} |-> 0]
  /\ calls = [c \in Callers |-> IdleCall]
  /\ started = 0
  /\ settled = {}
  /\ removed = {}

\* ------------------------------------------------------------------------
\* The transactions table

\* mutant of Occurrence: the transaction is linked to the first template
OccurrenceOfFirst(recurring, dateString) ==
  [recurring_transaction_id |-> 1, date |-> dateString,
   type |-> recurring.type, amount |-> recurring.amount,
   description |-> recurring.description, category_id |-> recurring.category_id,
   account_id |-> recurring.account_id, user_id |-> recurring.user_id]

\* mutant of Occurrence: the transaction goes to the first account
OccurrenceOnFirstAccount(recurring, dateString) ==
  [recurring_transaction_id |-> recurring.id, date |-> dateString,
   type |-> recurring.type, amount |-> recurring.amount,
   description |-> recurring.description, category_id |-> recurring.category_id,
   account_id |-> 1, user_id |-> recurring.user_id]

Occurrence(recurring, dateString) ==
  [recurring_transaction_id |-> recurring.id, date |-> dateString,
   type |-> recurring.type, amount |-> recurring.amount,
   description |-> recurring.description, category_id |-> recurring.category_id,
   account_id |-> recurring.account_id, user_id |-> recurring.user_id]

\* mutant of Matching: the filter on recurring_transaction_id is missing
MatchingAnyTemplate(id, dateString) ==
  { t \in BagToSet(transactions) : t.date = dateString }

Matching(id, dateString) ==
  { t \in BagToSet(transactions) :
      t.recurring_transaction_id = id /\ t.date = dateString }

RECURSIVE Copies(_)
Copies(rows) ==
  IF rows = {} THEN 0
  ELSE LET t == CHOOSE x \in rows : TRUE
       IN  CopiesIn(t, transactions) + Copies(rows \ {t})

\* number of rows of template id dated dateString
RowCount(id, dateString) == Copies(Matching(id, dateString))

\* mutant of single: the filter on date is missing
singleAnyDate(id, dateString) ==
  Copies({ t \in BagToSet(transactions) : t.recurring_transaction_id = id }) = 1

\* .select('id').eq(...).eq(...).single(): data is the row when exactly one
\* row matches and null otherwise (no row, or several rows).  The code reads
\* data alone and drops the error, so a read is taken to be answered.
single(id, dateString) == RowCount(id, dateString) = 1

\* .insert(row): rows dated after the calendar window are not kept
insert(row) ==
  IF row.date > MaxDate THEN transactions
  ELSE transactions (+) SetToBag({row})

\* ------------------------------------------------------------------------
\* Steps shared by the generation loops

Free(c) == calls[c].pc \in {"idle", "done", "failed"} /\ started < MaxCalls

Generating(c) == calls[c].op \in {"generate", "batch"}

\* top of the while (true) loop: the next date is computed and the loop is
\* left when the end date lies before it; otherwise the body runs for it
Advance(call) ==
  LET next    == getNextDate(call.recurring, call.currentDate)
      endDate == call.recurring.end_date
  IN  IF endDate # NULL /\ isBefore(parseISO(endDate), next)
      THEN [call EXCEPT !.currentDate = next, !.pc = "update"]
      ELSE [call EXCEPT !.currentDate = next,
                        !.pc = IF call.op \in {"generate", "batch"} THEN "check" ELSE "insert"]

\* a call enters generateTransactionsForRecurring with the row it was given
Enter(call, recurring) ==
  [call EXCEPT !.recurring = recurring, !.pc = "checkFirst",
               !.currentDate = parseISO(recurring.start_date),
               !.lastGeneratedDate = parseISO(recurring.start_date),
               !.processed = call.processed \cup {recurring.id}]

\* how many rows a call has added to the table (rows after the window are
\* not kept and not counted)
Count(call, row) == IF row.date > MaxDate THEN call.created ELSE call.created + 1

\* ------------------------------------------------------------------------
\* generateTransactionsForRecurring(recurring)

\* history: the call before this one was a generateTransactionsForRecurring
\* for template id that threw, after it or a failed run before it had
\* inserted transactions
Retry(call, id) ==
  /\ call.op = "generate" /\ call.pc = "failed" /\ call.recurring.id = id
  /\ call.created > 0 \/ call.retry

\* history: the call before this one was a createRecurringTransaction that
\* returned template id
AfterCreate(call, id) ==
  /\ call.op \in {"create", "createFirst"} /\ call.pc = "done" /\ call.recurring.id = id

generateTransactionsForRecurring(c, id) ==
  /\ Free(c)
  /\ id \in TemplateIds
  /\ calls' = [calls EXCEPT ![c] =
       Enter([IdleCall EXCEPT !.op = "generate", !.before = transactions,
                              !.rerun = (id \in settled),
                              !.retry = Retry(calls[c], id),
                              !.afterCreate = AfterCreate(calls[c], id)], Snapshot(id))]
  /\ started' = started + 1
  /\ UNCHANGED <<recurring_transactions, transactions, balance, settled, removed>>

\* "Criar a primeira transacao se nao existir": the existence read
CheckInitial(c) ==
  LET call == calls[c] IN
  /\ Generating(c) /\ call.pc = "checkFirst"
  /\ calls' = [calls EXCEPT ![c] =
       IF single(call.recurring.id, format(call.currentDate))
       THEN Advance(call)
       ELSE [call EXCEPT !.pc = "insertFirst"]]
  /\ UNCHANGED <<recurring_transactions, transactions, balance, started, settled, removed>>

\* the insert of the start-date transaction, or its createError
InsertInitial(c) ==
  LET call == calls[c]
      row  == Occurrence(call.recurring, format(call.currentDate)) IN
  /\ call.pc = "insertFirst"
  /\ \/ /\ transactions' = insert(row)
        /\ calls' = [calls EXCEPT ![c] = Advance([call EXCEPT !.created = Count(call, row)])]
        /\ settled' = settled \ {call.recurring.id}
     \/ /\ calls' = [calls EXCEPT ![c].pc = "failed"]
        /\ UNCHANGED <<transactions, settled>>
  /\ UNCHANGED <<recurring_transactions, balance, started, removed>>

\* mutant of CheckExisting: the answer of the existence read is not used,
\* the transaction is inserted in any case
CheckExistingUnused(c) ==
  LET call == calls[c] IN
  /\ Generating(c) /\ call.pc = "check"
  /\ calls' = [calls EXCEPT ![c] = [call EXCEPT !.pc = "insert"]]
  /\ UNCHANGED <<recurring_transactions, transactions, balance, started, settled, removed>>

\* "Verificar se ja existe uma transacao para esta data": the existence read
CheckExisting(c) ==
  LET call == calls[c] IN
  /\ Generating(c) /\ call.pc = "check"
  /\ calls' = [calls EXCEPT ![c] =
       IF single(call.recurring.id, format(call.currentDate))
       THEN Advance([call EXCEPT !.lastGeneratedDate = call.currentDate])
       ELSE [call EXCEPT !.pc = "insert"]]
  /\ UNCHANGED <<recurring_transactions, transactions, balance, started, settled, removed>>

\* mutant of InsertOccurrence: last_generated_date is written with every
\* insert instead of once after the loop
InsertOccurrenceAdvancing(c) ==
  LET call == calls[c]
      row  == Occurrence(call.recurring, format(call.currentDate)) IN
  /\ call.pc = "insert"
  /\ \/ /\ transactions' = insert(row)
        /\ recurring_transactions' =
             [recurring_transactions EXCEPT
                ![call.recurring.id].last_generated_date = row.date]
        /\ calls' = [calls EXCEPT ![c] =
             Advance([call EXCEPT !.created = Count(call, row),
                                  !.lastGeneratedDate = call.currentDate])]
        /\ settled' = settled \ {call.recurring.id}
     \/ /\ calls' = [calls EXCEPT ![c].pc = "failed"]
        /\ UNCHANGED <<recurring_transactions, transactions, settled>>
  /\ UNCHANGED <<balance, started, removed>>

\* the insert of the transaction of the current date, or its createError
InsertOccurrence(c) ==
  LET call == calls[c]
      row  == Occurrence(call.recurring, format(call.currentDate)) IN
  /\ call.pc = "insert"
  /\ \/ /\ transactions' = insert(row)
        /\ calls' = [calls EXCEPT ![c] =
             Advance([call EXCEPT !.created = Count(call, row),
                                  !.lastGeneratedDate = call.currentDate])]
        /\ settled' = settled \ {call.recurring.id}
     \/ /\ calls' = [calls EXCEPT ![c].pc = "failed"]
        /\ UNCHANGED <<transactions, settled>>
  /\ UNCHANGED <<recurring_transactions, balance, started, removed>>

\* what a call does once the watermark of its template is written: a batch
\* goes on with the next row it selected, every other call returns
Return(call) ==
  IF call.op = "batch" /\ call.queue # <<>>
  THEN Enter([call EXCEPT !.queue = Tail(call.queue)], Head(call.queue))
  ELSE [call EXCEPT !.pc = "done"]

\* "Atualizar a ultima data gerada": the update, or its updateError
UpdateLastGenerated(c) ==
  LET call == calls[c]
      id   == call.recurring.id IN
  /\ call.pc = "update"
  /\ \/ /\ recurring_transactions' =
             [recurring_transactions EXCEPT
                ![id].last_generated_date = format(call.lastGeneratedDate)]
        /\ calls' = [calls EXCEPT ![c] = Return(call)]
        /\ settled' = IF Generating(c) THEN settled \cup {id} ELSE settled \ {id}
     \/ /\ calls' = [calls EXCEPT ![c].pc = "failed"]
        /\ UNCHANGED <<recurring_transactions, settled>>
  /\ UNCHANGED <<transactions, balance, started, removed>>

\* ------------------------------------------------------------------------
\* generateRecurringTransactions()

\* the orders in which a select without ORDER BY can return the rows ids
Orders(ids) ==
  { q \in [1 .. Cardinality(ids) -> ids] : \A i, j \in DOMAIN q : q[i] = q[j] => i = j }

\* .from('recurring_transactions').select('*').is('end_date', null)
ActiveRecurring == { id \in TemplateIds : recurring_transactions[id].end_date = NULL }

generateRecurringTransactions(c) ==
  /\ Free(c)
  /\ started' = started + 1
  /\ \/ \E order \in Orders(ActiveRecurring) :
          LET rows  == [i \in DOMAIN order |-> Snapshot(order[i])]
              batch == [IdleCall EXCEPT !.op = "batch", !.before = transactions,
                                        !.selected = ActiveRecurring]
          IN  calls' = [calls EXCEPT ![c] =
                IF rows = <<>> THEN [batch EXCEPT !.pc = "done"]
                ELSE Enter([batch EXCEPT !.queue = Tail(rows)], Head(rows))]
     \/ calls' = [calls EXCEPT ![c] = [IdleCall EXCEPT !.op = "batch", !.pc = "failed"]]
  /\ UNCHANGED <<recurring_transactions, transactions, balance, settled, removed>>

\* ------------------------------------------------------------------------
\* createRecurringTransaction(transaction, recurring)

\* the id of the category of a transaction: the categories table is not
\* kept, there is one category for each type
findOrCreateCategory(type) == IF type = "income" THEN 1 ELSE 2

NewRecurring(input, accountId) ==
  [id |-> Len(recurring_transactions) + 1,
   frequency |-> input.frequency, interval |-> input.interval,
   start_date |-> input.start_date, end_date |-> input.end_date,
   last_generated_date |-> NULL, type |-> input.type, amount |-> input.amount,
   description |-> input.description, category_id |-> findOrCreateCategory(input.type),
   account_id |-> accountId, user_id |-> User]

Row(recurring) ==
  [frequency |-> recurring.frequency, interval |-> recurring.interval,
   start_date |-> recurring.start_date, end_date |-> recurring.end_date,
   last_generated_date |-> recurring.last_generated_date,
   type |-> recurring.type, amount |-> recurring.amount,
   description |-> recurring.description, category_id |-> recurring.category_id,
   account_id |-> recurring.account_id, user_id |-> recurring.user_id]

\* the insert of the template row (or its recurringError); op says which of
\* the two generation loops follows.  The reads before it write nothing to
\* the three tables; the account is the row that
\* .from('accounts').select('id').eq('user_id', user.id).limit(1) returns,
\* any account of the user as the select has no ORDER BY.
InsertRecurring(c, input, op) ==
  \E accountId \in DOMAIN balance :
  LET recurring == NewRecurring(input, accountId)
      call == [IdleCall EXCEPT !.op = op, !.before = transactions,
                               !.recurring = recurring,
                               !.currentDate = parseISO(input.start_date),
                               !.lastGeneratedDate = parseISO(input.start_date)]
  IN
  /\ Free(c)
  /\ Len(recurring_transactions) < MaxTemplates
  /\ started' = started + 1
  /\ \/ /\ recurring_transactions' = Append(recurring_transactions, Row(recurring))
        /\ calls' = [calls EXCEPT ![c] =
             IF op = "createFirst" THEN [call EXCEPT !.pc = "insertFirst"]
             ELSE Advance(call)]
     \/ /\ calls' = [calls EXCEPT ![c] = [call EXCEPT !.pc = "failed"]]
        /\ UNCHANGED recurring_transactions
  /\ UNCHANGED <<transactions, balance, settled, removed>>

\* the service object of lines 556-1127: the loop starts at the date after
\* the start date
createRecurringTransaction(c, input) == InsertRecurring(c, input, "create")

\* the service object of lines 35-517: the start-date transaction is
\* inserted before the loop
createRecurringTransactionFirst(c, input) == InsertRecurring(c, input, "createFirst")

\* ------------------------------------------------------------------------
\* deleteTransaction(id), deleteMultipleTransactions(ids)

\* the effect on the balance of taking the rows away
RECURSIVE BalanceChange(_)
BalanceChange(rows) ==
  IF rows = {} THEN 0
  ELSE LET t == CHOOSE x \in rows : TRUE
       IN  (IF t.type = "income" THEN -t.amount ELSE t.amount) + BalanceChange(rows \ {t})

\* history: the deleted rows that the watermark of their template covers
Covered(rows) ==
  { <<t.recurring_transaction_id, t.date>> : t \in
      { x \in rows : /\ x.recurring_transaction_id \in TemplateIds
                     /\ recurring_transactions[x.recurring_transaction_id].last_generated_date # NULL
                     /\ x.date <= recurring_transactions[x.recurring_transaction_id].last_generated_date } }

\* transactionsByAccount: the accounts of the rows and the rows of each
AccountsOf(rows) == { t.account_id : t \in rows }

RowsOfAccount(rows, accountId) == { t \in rows : t.account_id = accountId }

\* mutant of Reverted: the change is taken off the balance
RevertedSubtracting(rows, updated) ==
  [a \in DOMAIN balance |->
     IF a \in updated THEN balance[a] - BalanceChange(RowsOfAccount(rows, a)) ELSE balance[a]]

\* the balances once the accounts in updated have had their
\* updateAccountBalance(accountId, account.balance + balanceChange)
Reverted(rows, updated) ==
  [a \in DOMAIN balance |->
     IF a \in updated THEN balance[a] + BalanceChange(RowsOfAccount(rows, a)) ELSE balance[a]]

\* one row of each of rows is deleted and the balance of each account of the
\* rows reverted; the call can throw before the delete, or after it when a
\* balance update fails (the accounts before it in the loop are updated)
Delete(c, rows, op) ==
  /\ Free(c)
  /\ started' = started + 1
  /\ \/ /\ transactions' = transactions (-) SetToBag(rows)
        /\ removed' = removed \cup Covered(rows)
        /\ settled' = settled \ { t.recurring_transaction_id : t \in rows }
        /\ \A a \in AccountsOf(rows) :
             Reverted(rows, {a})[a] \in -MaxBalance .. MaxBalance
        /\ \/ /\ balance' = Reverted(rows, AccountsOf(rows))
              /\ calls' = [calls EXCEPT ![c] = [IdleCall EXCEPT !.op = op, !.pc = "done"]]
           \/ /\ \E updated \in SUBSET AccountsOf(rows) :
                   /\ updated # AccountsOf(rows)
                   /\ balance' = Reverted(rows, updated)
              /\ calls' = [calls EXCEPT ![c] = [IdleCall EXCEPT !.op = op, !.pc = "failed"]]
     \/ /\ calls' = [calls EXCEPT ![c] = [IdleCall EXCEPT !.op = op, !.pc = "failed"]]
        /\ UNCHANGED <<transactions, balance, settled, removed>>
  /\ UNCHANGED recurring_transactions

\* the lists of at most n ids of rows of the table
RECURSIVE IdLists(_)
IdLists(n) ==
  IF n = 0 THEN {{}}
  ELSE IdLists(n - 1) \cup { ids \cup {t} : ids \in IdLists(n - 1), t \in BagToSet(transactions) }

deleteTransaction(c, t) ==
  /\ t \in BagToSet(transactions)
  /\ Delete(c, {t}, "delete")

deleteMultipleTransactions(c, ids) ==
  /\ ids # {}
  /\ Delete(c, ids, "deleteMultiple")

\* ------------------------------------------------------------------------
\* updateRecurringTransaction(id, updates)

\* mutant of UpdateInputs: a caller that also moves the start date
UpdateInputsWithStart == { [end_date |-> Today], [start_date |-> Today] }

\* the updates a caller passes: handleEndRecurring ends the template today
\* (new Date().toISOString().split('T')[0])
UpdateInputs == { [end_date |-> Today] }

\* .update(updates).eq('id', id): the columns named in updates are written
Updated(row, updates) ==
  [f \in DOMAIN row |-> IF f \in DOMAIN updates THEN updates[f] ELSE row[f]]

updateRecurringTransaction(c, id, updates) ==
  /\ Free(c)
  /\ id \in TemplateIds
  /\ started' = started + 1
  /\ \/ /\ recurring_transactions' =
             [recurring_transactions EXCEPT ![id] = Updated(recurring_transactions[id], updates)]
        /\ settled' = settled \ {id}
        /\ calls' = [calls EXCEPT ![c] = [IdleCall EXCEPT !.op = "update", !.pc = "done"]]
     \/ /\ calls' = [calls EXCEPT ![c] = [IdleCall EXCEPT !.op = "update", !.pc = "failed"]]
        /\ UNCHANGED <<recurring_transactions, settled>>
  /\ UNCHANGED <<transactions, balance, removed>>

\* ------------------------------------------------------------------------
\* createTransaction(transaction) without recurring, and deleteTransaction(id),
\* round trip by round trip

\* the one-off transactions a caller asks createTransaction for
TransactionInputs ==
  { [type |-> "income",  amount |-> 1, date |-> Today, description |-> "bonus"],
    [type |-> "expense", amount |-> 1, date |-> Today, description |-> "mercado"] }

\* the row createTransaction inserts
OneOff(input, accountId) ==
  [recurring_transaction_id |-> NULL, date |-> input.date,
   type |-> input.type, amount |-> input.amount,
   description |-> input.description, category_id |-> findOrCreateCategory(input.type),
   account_id |-> accountId, user_id |-> User]

\* .from('accounts').select('*').eq('user_id', user.id).limit(1): the call
\* holds the account row, its balance included, from here on
createTransaction(c, input) ==
  /\ Free(c)
  /\ started' = started + 1
  /\ \/ \E accountId \in DOMAIN balance :
          calls' = [calls EXCEPT ![c] =
            [IdleCall EXCEPT !.op = "createTransaction", !.pc = "insertTransaction",
                             !.before = transactions,
                             !.transaction = OneOff(input, accountId),
                             !.account = balance[accountId]]]
     \/ calls' = [calls EXCEPT ![c] =
            [IdleCall EXCEPT !.op = "createTransaction", !.pc = "failed"]]
  /\ UNCHANGED <<recurring_transactions, transactions, balance, settled, removed>>

\* "Cria a transacao normal": the insert, or its error
InsertTransaction(c) ==
  LET call == calls[c] IN
  /\ call.pc = "insertTransaction"
  /\ \/ /\ transactions' = transactions (+) SetToBag({call.transaction})
        /\ calls' = [calls EXCEPT ![c].pc = "updateAccountBalance"]
     \/ /\ calls' = [calls EXCEPT ![c].pc = "failed"]
        /\ UNCHANGED transactions
  /\ UNCHANGED <<recurring_transactions, balance, started, settled, removed>>

\* deleteTransaction: "Buscar a transacao antes de deletar"
FetchTransaction(c, t) ==
  /\ Free(c)
  /\ started' = started + 1
  /\ \/ /\ t \in BagToSet(transactions)
        /\ calls' = [calls EXCEPT ![c] =
             [IdleCall EXCEPT !.op = "deleteTransaction", !.pc = "fetchAccount",
                              !.before = transactions, !.transaction = t]]
     \/ calls' = [calls EXCEPT ![c] =
             [IdleCall EXCEPT !.op = "deleteTransaction", !.pc = "failed"]]
  /\ UNCHANGED <<recurring_transactions, transactions, balance, settled, removed>>

\* deleteTransaction: "Buscar a conta para atualizar o saldo"
FetchAccount(c) ==
  LET call == calls[c] IN
  /\ call.pc = "fetchAccount"
  /\ \/ calls' = [calls EXCEPT ![c] =
          [call EXCEPT !.pc = "deleteRow", !.account = balance[call.transaction.account_id]]]
     \/ calls' = [calls EXCEPT ![c].pc = "failed"]
  /\ UNCHANGED <<recurring_transactions, transactions, balance, started, settled, removed>>

\* deleteTransaction: "Deletar a transacao"; a row that is no longer there
\* is no error of .delete().eq('id', id)
DeleteRow(c) ==
  LET call == calls[c]
      rows == {call.transaction} \cap BagToSet(transactions) IN
  /\ call.pc = "deleteRow"
  /\ \/ /\ transactions' = transactions (-) SetToBag(rows)
        /\ removed' = removed \cup Covered(rows)
        /\ settled' = settled \ { t.recurring_transaction_id : t \in rows }
        /\ calls' = [calls EXCEPT ![c].pc = "updateAccountBalance"]
     \/ /\ calls' = [calls EXCEPT ![c].pc = "failed"]
        /\ UNCHANGED <<transactions, settled, removed>>
  /\ UNCHANGED <<recurring_transactions, balance, started>>

\* the balance both methods compute from the account row they hold:
\* createTransaction applies the transaction, deleteTransaction reverts it
newBalance(call) ==
  IF (call.op = "createTransaction") = (call.transaction.type = "income")
  THEN call.account + call.transaction.amount
  ELSE call.account - call.transaction.amount

\* accountService.updateAccountBalance(accountId, newBalance), or its error
updateAccountBalance(c) ==
  LET call == calls[c] IN
  /\ call.pc = "updateAccountBalance"
  /\ \/ /\ newBalance(call) \in -MaxBalance .. MaxBalance
        /\ balance' = [balance EXCEPT ![call.transaction.account_id] = newBalance(call)]
        /\ calls' = [calls EXCEPT ![c].pc = "done"]
     \/ /\ calls' = [calls EXCEPT ![c].pc = "failed"]
        /\ UNCHANGED balance
  /\ UNCHANGED <<recurring_transactions, transactions, started, settled, removed>>

\* ------------------------------------------------------------------------
\* Specifications

\* a step of the call of caller c
Step(c) ==
  \/ CheckInitial(c)
  \/ InsertInitial(c)
  \/ CheckExisting(c)
  \/ InsertOccurrence(c)
  \/ UpdateLastGenerated(c)

\* a caller starts a service call
Call(c) ==
  \/ \E input \in TemplateInputs : createRecurringTransaction(c, input)
  \/ \E input \in TemplateInputs : createRecurringTransactionFirst(c, input)
  \/ \E id \in TemplateIds : generateTransactionsForRecurring(c, id)
  \/ generateRecurringTransactions(c)
  \/ \E t \in BagToSet(transactions) : deleteTransaction(c, t)
  \/ \E ids \in IdLists(MaxIds) : deleteMultipleTransactions(c, ids)
  \/ \E id \in TemplateIds, updates \in UpdateInputs : updateRecurringTransaction(c, id, updates)

\* one caller: every call runs to its end before the next call starts
Next == Call(1) \/ Step(1)

Spec == Init /\ [][Next]_vars

\* the calls two concurrent callers start
CallConcurrent(c) ==
  \/ \E input \in TemplateInputs : createRecurringTransaction(c, input)
  \/ \E id \in TemplateIds : generateTransactionsForRecurring(c, id)

\* two callers: the round trips of their calls interleave
NextConcurrent == \E c \in Callers : CallConcurrent(c) \/ Step(c)

SpecConcurrent == Init /\ [][NextConcurrent]_vars

\* every round trip of a call in progress is answered, so the call goes on
SpecFair == Spec /\ WF_vars(Step(1))

\* the store after two createRecurringTransaction calls that threw at their
\* first transaction insert: the two template rows, no transaction
InitTwoTemplates ==
  \E input1, input2 \in TemplateInputs :
    /\ recurring_transactions =
         << Row([NoRecurring EXCEPT
                   !.frequency = input1.frequency, !.interval = input1.interval,
                   !.start_date = input1.start_date, !.end_date = input1.end_date,
                   !.type = input1.type, !.amount = input1.amount,
                   !.description = input1.description,
                   !.category_id = findOrCreateCategory(input1.type),
                   !.account_id = 1, !.user_id = User]),
            Row([NoRecurring EXCEPT
                   !.frequency = input2.frequency, !.interval = input2.interval,
                   !.start_date = input2.start_date, !.end_date = input2.end_date,
                   !.type = input2.type, !.amount = input2.amount,
                   !.description = input2.description,
                   !.category_id = findOrCreateCategory(input2.type),
                   !.account_id = 1, !.user_id = User]) >>
    /\ transactions = EmptyBag
    /\ balance = [a \in {1} |-> 0]
    /\ calls = [c \in Callers |-> IdleCall]
    /\ started = 0
    /\ settled = {}
    /\ removed = {}

\* each caller runs generateTransactionsForRecurring for a template of its
\* own, the round trips of the two interleave
NextTwoTemplates ==
  \E c \in Callers :
    \/ generateTransactionsForRecurring(c, c)
    \/ Step(c)

SpecTwoTemplates == InitTwoTemplates /\ [][NextTwoTemplates]_vars

\* a step of a createTransaction or deleteTransaction of caller c
StepBalance(c) ==
  \/ InsertTransaction(c)
  \/ FetchAccount(c)
  \/ DeleteRow(c)
  \/ updateAccountBalance(c)

\* the user has several accounts
InitAccounts ==
  /\ recurring_transactions = <<>>
  /\ transactions = EmptyBag
  /\ balance = [a \in 1 .. MaxAccounts |-> 0]
  /\ calls = [c \in Callers |-> IdleCall]
  /\ started = 0
  /\ settled = {}
  /\ removed = {}

\* the calls that create and delete transactions
CallAccounts(c) ==
  \/ \E input \in TransactionInputs : createTransaction(c, input)
  \/ \E input \in TemplateInputs : createRecurringTransaction(c, input)
  \/ \E id \in TemplateIds : generateTransactionsForRecurring(c, id)
  \/ \E t \in BagToSet(transactions) : FetchTransaction(c, t)
  \/ \E ids \in IdLists(MaxIds) : deleteMultipleTransactions(c, ids)

\* one caller, several accounts
NextAccounts == CallAccounts(1) \/ Step(1) \/ StepBalance(1)

SpecAccounts == InitAccounts /\ [][NextAccounts]_vars

\* two callers create and delete one-off transactions on one account, the
\* round trips of their calls interleave
NextBalance ==
  \E c \in Callers :
    \/ \E input \in TransactionInputs : createTransaction(c, input)
    \/ \E t \in BagToSet(transactions) : FetchTransaction(c, t)
    \/ StepBalance(c)

SpecBalance == Init /\ [][NextBalance]_vars

\* the calls that create and materialize templates
CallEnding(c) ==
  \/ \E input \in TemplateInputs : createRecurringTransaction(c, input)
  \/ \E id \in TemplateIds : generateTransactionsForRecurring(c, id)
  \/ generateRecurringTransactions(c)

\* the user ends templates (handleEndRecurring, caller 2) while the calls of
\* caller 1 are in progress: the update falls between two of their round
\* trips
NextEnding ==
  \/ CallEnding(1)
  \/ Step(1)
  \/ \E id \in TemplateIds, updates \in UpdateInputs : updateRecurringTransaction(2, id, updates)

SpecEnding == Init /\ [][NextEnding]_vars

\* ------------------------------------------------------------------------
\* Claims

Finished(c) == calls[c].pc \in {"idle", "done", "failed"}

Running(c) == ~Finished(c)

LastGenerated(id) == recurring_transactions[id].last_generated_date

\* the invariants the data model asks of a template
Valid(recurring) ==
  /\ recurring.interval >= 1
  /\ recurring.end_date # NULL => recurring.start_date <= recurring.end_date

C3_ConcurrentRunsInsertOnce ==
  \A c1, c2 \in Callers :
    (/\ c1 # c2
     /\ calls[c1].op = "generate" /\ calls[c1].pc = "done"
     /\ calls[c2].op = "generate" /\ calls[c2].pc = "done"
     /\ calls[c1].recurring.id = calls[c2].recurring.id
     /\ Valid(calls[c1].recurring))
      => \A t \in BagToSet(transactions) :
           t.recurring_transaction_id = calls[c1].recurring.id
             => RowCount(t.recurring_transaction_id, t.date) = 1

\* C4: every call that is generating the transactions of a valid template
\* eventually returns (or throws).
C4_Terminates == (Running(1) /\ Valid(calls[1].recurring)) ~> Finished(1)

\* C5: every transaction a step inserts for a valid template is dated on or
\* before today, and on or before the end date of the template when it has
\* one.
C5_UpperBound ==
  [][\A t \in BagToSet(transactions') :
       (/\ CopiesIn(t, transactions') > CopiesIn(t, transactions)
        /\ Valid(recurring_transactions[t.recurring_transaction_id]))
         => /\ t.date <= Today
            /\ recurring_transactions[t.recurring_transaction_id].end_date # NULL
                 => t.date <= recurring_transactions[t.recurring_transaction_id].end_date]_vars

\* C6: once a run of generateTransactionsForRecurring for a valid template
\* has returned, no row exists for a date of that template whose row was
\* deleted while the watermark covered it.
C6_NoResurrection ==
  \A c \in Callers :
    (calls[c].op = "generate" /\ calls[c].pc = "done" /\ Valid(calls[c].recurring))
      => \A r \in removed : r[1] = calls[c].recurring.id => RowCount(r[1], r[2]) = 0

\* C7: no step changes a last_generated_date that is set to an earlier date
\* (or back to null).
C7_WatermarkMonotonic ==
  [][\A id \in TemplateIds :
       LastGenerated(id) # NULL
         => recurring_transactions'[id].last_generated_date >= LastGenerated(id)]_vars

\* C8: a run of generateTransactionsForRecurring that has thrown leaves the
\* transactions table as it found it.
C8_AllOrNothing ==
  \A c \in Callers :
    (calls[c].op = "generate" /\ calls[c].pc = "failed") => transactions = calls[c].before

\* C9: when generateRecurringTransactions has ended, with or without an
\* error, generateTransactionsForRecurring was entered for every template it
\* selected.
C9_BatchIsolation ==
  \A c \in Callers :
    (calls[c].op = "batch" /\ Finished(c)) => calls[c].processed = calls[c].selected

\* C10: the templates generateRecurringTransactions selects are exactly
\* those with no end date or with an end date on or after today.
C10_BatchSelection ==
  \A c \in Callers :
    (calls[c].op = "batch" /\ (calls[c].pc # "failed" \/ calls[c].processed # {}))
      => calls[c].selected =
           { id \in TemplateIds :
               \/ recurring_transactions[id].end_date = NULL
               \/ recurring_transactions[id].end_date >= Today }

\* a call that materializes a template (either createRecurringTransaction,
\* or a direct generateTransactionsForRecurring) has returned
Materialized(c) ==
  calls[c].op \in {"create", "createFirst", "generate"} /\ calls[c].pc = "done"

\* C11: when a call that materializes a valid template has returned, a
\* transaction of the template dated start_date exists; in particular after
\* a successful createRecurringTransaction.
C11_FirstAtStart ==
  \A c \in Callers :
    (Materialized(c) /\ Valid(calls[c].recurring))
      => RowCount(calls[c].recurring.id, calls[c].recurring.start_date) >= 1

\* the row of the template a transaction belongs to
TemplateOf(t) == recurring_transactions[t.recurring_transaction_id]

\* the day of month a monthly schedule that starts on startDay falls on in
\* month m of year y: the start day, or the last day of a shorter month
ClampedDay(startDay, y, m) ==
  IF startDay > DaysInMonth(y, m) THEN DaysInMonth(y, m) ELSE startDay

\* C12: every transaction of a monthly template with interval 1 is dated on
\* the day of month of the start date, or on the last day of its month when
\* the month is shorter (Jan 31, Feb 29, Mar 31, Apr 30, ...).
C12_ClampKeepsDay ==
  \A t \in BagToSet(transactions) :
    (TemplateOf(t).frequency = "monthly" /\ TemplateOf(t).interval = 1)
      => parseISO(t.date).day =
           ClampedDay(parseISO(TemplateOf(t).start_date).day,
                      parseISO(t.date).year, parseISO(t.date).month)

\* number of the day of a Date object, counted from the civil calendar alone
RECURSIVE DayOfYear(_, _)
DayOfYear(y, m) == IF m = 1 THEN 0 ELSE DaysInMonth(y, m - 1) + DayOfYear(y, m - 1)

DayNumber(d) ==
  365 * d.year + (d.year - 1) \div 4 - (d.year - 1) \div 100 + (d.year - 1) \div 400
    + DayOfYear(d.year, d.month) + d.day

MonthNumber(d) == 12 * d.year + d.month

\* date b is date a advanced by interval units of frequency
AdvancedBy(recurring, a, b) ==
  CASE recurring.frequency = "daily"   -> DayNumber(b) - DayNumber(a) = recurring.interval
    [] recurring.frequency = "weekly"  -> DayNumber(b) - DayNumber(a) = 7 * recurring.interval
    [] recurring.frequency = "monthly" -> /\ MonthNumber(b) - MonthNumber(a) = recurring.interval
                                          /\ b.day = ClampedDay(a.day, b.year, b.month)
    [] recurring.frequency = "yearly"  -> /\ MonthNumber(b) - MonthNumber(a) = 12 * recurring.interval
                                          /\ b.day = ClampedDay(a.day, b.year, b.month)
    [] OTHER                           -> FALSE

\* C13: whenever the loop of a call that generates for a valid template
\* moves from one date to the next, the next date is later than the one
\* before, and (inside the calendar window) it is the one before advanced by
\* interval units of the frequency.
C13_StrictlyIncreasing ==
  [][\A c \in Callers :
       (/\ Running(c) /\ calls'[c].pc # "checkFirst"
        /\ Valid(calls[c].recurring)
        /\ calls'[c].currentDate # calls[c].currentDate)
         => /\ isBefore(calls[c].currentDate, calls'[c].currentDate)
            /\ calls'[c].currentDate # Beyond
                 => AdvancedBy(calls[c].recurring, calls[c].currentDate, calls'[c].currentDate)]_vars

\* the loop of a run for the monthly template of Jan 31 has gone from the
\* start date over Feb 29 to its third date
C13_Witness ==
  /\ calls[1].op = "generate" /\ Running(1)
  /\ calls[1].recurring.frequency = "monthly" /\ calls[1].recurring.start_date = 20240131
  /\ format(calls[1].currentDate) = 20240329

\* C14: a call that materializes a template whose start date is later than
\* its end date, or later than today, adds no transaction.
C14_EmptySequence ==
  \A c \in Callers :
    (/\ calls[c].op \in {"create", "createFirst", "generate", "batch"}
     /\ \/ calls[c].recurring.end_date # NULL
           /\ calls[c].recurring.start_date > calls[c].recurring.end_date
        \/ calls[c].recurring.start_date > Today)
      => calls[c].created = 0

\* the dates of the transactions of template id
DatesOf(id) ==
  { t.date : t \in { x \in BagToSet(transactions) : x.recurring_transaction_id = id } }

\* C15: when a call that materializes a valid template has returned, the
\* template has transactions and its last_generated_date is the latest of
\* their dates.
C15_WatermarkIsMaxDate ==
  \A c \in Callers :
    (Materialized(c) /\ Valid(calls[c].recurring))
      => /\ LastGenerated(calls[c].recurring.id) \in DatesOf(calls[c].recurring.id)
         /\ \A d \in DatesOf(calls[c].recurring.id) : d <= LastGenerated(calls[c].recurring.id)

\* C16: a call that creates or materializes a template that is not valid
\* ends in an error; it has added no transaction, a create has stored no
\* template row and a generation has written no last_generated_date.
C16_InvalidFailsFast ==
  \A c \in Callers :
    (/\ calls[c].op \in {"create", "createFirst", "generate"}
     /\ Finished(c)
     /\ ~Valid(calls[c].recurring))
      => /\ calls[c].pc = "failed"
         /\ calls[c].created = 0
         /\ calls[c].op # "generate" => calls[c].recurring.id \notin TemplateIds
         /\ calls[c].op = "generate"
              => LastGenerated(calls[c].recurring.id) = calls[c].recurring.last_generated_date

\* the schedule of recurring, followed from date, comes to the date string
\* target
RECURSIVE Visits(_, _, _)
Visits(recurring, date, target) ==
  IF format(date) = target THEN TRUE
  ELSE IF format(date) > target THEN FALSE
  ELSE Visits(recurring, getNextDate(recurring, date), target)

\* C17: the last_generated_date of a valid template, when set, is a date of
\* its own schedule and is not later than its end date when it has one.
C17_WatermarkOnSchedule ==
  \A id \in TemplateIds :
    (LastGenerated(id) # NULL /\ Valid(recurring_transactions[id]))
      => /\ Visits(recurring_transactions[id],
                   parseISO(recurring_transactions[id].start_date), LastGenerated(id))
         /\ recurring_transactions[id].end_date # NULL
              => LastGenerated(id) <= recurring_transactions[id].end_date

C19_DailyScenario ==
  \A c \in Callers :
    (/\ calls[c].op \in {"create", "createFirst"} /\ calls[c].pc = "done"
     /\ calls[c].recurring.frequency = "daily" /\ calls[c].recurring.interval = 2
     /\ calls[c].recurring.start_date = 20240101 /\ calls[c].recurring.end_date = 20240107)
      => /\ DatesOf(calls[c].recurring.id) = {20240101, 20240103, 20240105, 20240107}
         /\ \A d \in DatesOf(calls[c].recurring.id) : RowCount(calls[c].recurring.id, d) = 1
         /\ calls[c].created = 4
         /\ LastGenerated(calls[c].recurring.id) = 20240107

\* C20: once the end_date of a template is set to today (the template was
\* ended), no step of a generateTransactionsForRecurring, run directly or by
\* generateRecurringTransactions, inserts a transaction of that template
\* dated after today, whenever the run was started.
C20_EndingStopsGeneration ==
  [][\A c \in Callers : \A t \in BagToSet(transactions') :
       (/\ Generating(c) /\ calls[c].pc \in {"insertFirst", "insert"}
        /\ CopiesIn(t, transactions') > CopiesIn(t, transactions)
        /\ TemplateOf(t).end_date = Today)
         => t.date <= Today]_vars

\* the date strings the generation loop computes for recurring from date on,
\* up to its end date (inside the calendar window)
RECURSIVE Candidates(_, _)
Candidates(recurring, date) ==
  IF date = Beyond \/ format(date) > recurring.end_date THEN {}
  ELSE {format(date)} \cup Candidates(recurring, getNextDate(recurring, date))

OwnRows(id, dateString) ==
  Copies({ t \in BagToSet(transactions) :
             t.recurring_transaction_id = id /\ t.date = dateString })

\* C22: a step of a generateTransactionsForRecurring for template A leaves
\* every transaction of every other template and the last_generated_date of
\* every other template as they are, and the answer of its existence read
\* is decided by the transactions of A alone; so the steps of runs for
\* different templates commute.
C22_TemplatesIndependent ==
  [][\A c \in Callers :
       (calls[c].op = "generate" /\ Running(c) /\ calls'[c] # calls[c])
         => /\ \A t \in BagToSet(transactions) \cup BagToSet(transactions') :
                 t.recurring_transaction_id # calls[c].recurring.id
                   => CopiesIn(t, transactions') = CopiesIn(t, transactions)
            /\ \A id \in TemplateIds \ {calls[c].recurring.id} :
                 recurring_transactions'[id] = recurring_transactions[id]
            /\ calls[c].pc \in {"checkFirst", "check"}
                 => (calls'[c].pc \in {"insertFirst", "insert"}
                       <=> OwnRows(calls[c].recurring.id, format(calls[c].currentDate)) # 1)]_vars

\* two runs for different templates are in progress and each has inserted
\* transactions
C22_Witness ==
  /\ calls[1].op = "generate" /\ Running(1) /\ calls[1].created > 0
  /\ calls[2].op = "generate" /\ Running(2) /\ calls[2].created > 0
  /\ calls[1].recurring.id # calls[2].recurring.id

C24_WatermarkOnlyOnSuccess ==
  \A c \in Callers :
    (/\ calls[c].op \in {"create", "createFirst", "generate", "batch"}
     /\ calls[c].pc = "failed"
     /\ calls[c].recurring.id \in TemplateIds)
      => LastGenerated(calls[c].recurring.id) = calls[c].recurring.last_generated_date

\* a run for a template that has a watermark has thrown after inserting a
\* transaction
C24_Witness ==
  /\ calls[1].op = "generate" /\ calls[1].pc = "failed" /\ calls[1].created > 0
  /\ calls[1].recurring.last_generated_date # NULL
  /\ format(calls[1].lastGeneratedDate) # calls[1].recurring.last_generated_date

\* C25: a generateTransactionsForRecurring that runs right after the
\* createRecurringTransaction of a valid template with an end date has
\* returned inserts no transaction and leaves last_generated_date as the
\* creation wrote it.
C25_GeneratorsAgree ==
  \A c \in Callers :
    (/\ calls[c].op = "generate" /\ calls[c].pc = "done" /\ calls[c].afterCreate
     /\ Valid(calls[c].recurring) /\ calls[c].recurring.end_date # NULL)
      => /\ calls[c].created = 0
         /\ transactions = calls[c].before
         /\ LastGenerated(calls[c].recurring.id) = calls[c].recurring.last_generated_date

\* incomes minus expenses of the rows, each counted as often as the table
\* holds it
RECURSIVE Net(_)
Net(rows) ==
  IF rows = {} THEN 0
  ELSE LET t == CHOOSE x \in rows : TRUE
       IN  CopiesIn(t, transactions) * (IF t.type = "income" THEN t.amount ELSE -t.amount)
             + Net(rows \ {t})

\* C26: when the first call ever made has returned without an error (so no
\* store error has occurred), the balance of every account is its initial
\* balance (zero) plus its income transactions minus its expense
\* transactions, the generated ones included.
C26_BalanceMatchesTransactions ==
  (started = 1 /\ calls[1].pc = "done")
    => \A a \in DOMAIN balance :
         balance[a] = Net({ t \in BagToSet(transactions) : t.account_id = a })

\* C27: when each of two callers has made exactly one createTransaction or
\* deleteTransaction call on the account, the two calls interleaved in any
\* way, and both have returned without an error, the balance reflects both:
\* it is the incomes minus the expenses of the transactions left.
C27_NoLostBalanceUpdate ==
  (/\ started = 2
   /\ \A c \in Callers :
        calls[c].op \in {"createTransaction", "deleteTransaction"} /\ calls[c].pc = "done")
    => balance[1] = Net({ t \in BagToSet(transactions) : t.account_id = 1 })

\* the store a deleteTransaction(id) that returns leaves: the row is gone and
\* the balance of its account is the one read plus the reverted amount
DeleteOne(store, t) ==
  [transactions |-> store.transactions (-) SetToBag({t}),
   balance |-> [store.balance EXCEPT ![t.account_id] =
                  newBalance([op |-> "deleteTransaction", transaction |-> t,
                              account |-> store.balance[t.account_id]])]]

\* the stores that deleteTransaction called once for each of ids, one call
\* after the other in any order, can leave
RECURSIVE DeleteEach(_, _)
DeleteEach(store, ids) ==
  IF ids = {} THEN {store}
  ELSE UNION { DeleteEach(DeleteOne(store, t), ids \ {t}) : t \in ids }

\* C28: a deleteMultipleTransactions(ids) that returns leaves the
\* transactions and the balance of every account that deleteTransaction,
\* called once for each id in any order, leaves from the same store.
C28_DeleteMultipleAsEach ==
  [][\A ids \in IdLists(MaxIds) :
       (deleteMultipleTransactions(1, ids) /\ calls'[1].pc = "done")
         => DeleteEach([transactions |-> transactions, balance |-> balance], ids)
              = {[transactions |-> transactions', balance |-> balance']}]_vars

\* two templates were created on two accounts and a deleteMultipleTransactions
\* has deleted an expense of the first account and an income of the second
C28_Witness ==
  /\ started = 3 /\ Len(recurring_transactions) = 2
  /\ calls[1].op = "deleteMultiple" /\ calls[1].pc = "done"
  /\ balance[1] = 1 /\ balance[2] = -1

\* the descriptions in the order the store sorts them ascending
Collation == << "academia", "aluguel", "salario", "seguro" >>

Rank(description) == CHOOSE i \in 1 .. Len(Collation) : Collation[i] = description

\* mutant of Precedes: created_at ascending
PrecedesOldestFirst(i, j) ==
  \/ Rank(recurring_transactions[i].description) < Rank(recurring_transactions[j].description)
  \/ /\ recurring_transactions[i].description = recurring_transactions[j].description
     /\ i < j

\* .order('description', { ascending: true }).order('created_at',
\* { ascending: false }): template i comes before template j; the templates
\* are numbered in the order of their creation
Precedes(i, j) ==
  \/ Rank(recurring_transactions[i].description) < Rank(recurring_transactions[j].description)
  \/ /\ recurring_transactions[i].description = recurring_transactions[j].description
     /\ i > j

\* data: the ids of the templates in the order of the query
RECURSIVE OrderBy(_)
OrderBy(ids) ==
  IF ids = {} THEN <<>>
  ELSE LET first == CHOOSE i \in ids : \A j \in ids \ {i} : Precedes(i, j)
       IN  <<first>> \o OrderBy(ids \ {first})

\* data.reduce: current is pushed when acc holds no template of its
\* description
RECURSIVE uniqueTransactions(_, _)
uniqueTransactions(acc, data) ==
  IF data = <<>> THEN acc
  ELSE LET current == Head(data)
           exists == \E k \in 1 .. Len(acc) :
                       recurring_transactions[acc[k]].description
                         = recurring_transactions[current].description
       IN  uniqueTransactions(IF exists THEN acc ELSE Append(acc, current), Tail(data))

\* the ids of the templates getRecurringTransactions returns, in order
getRecurringTransactions == uniqueTransactions(<<>>, OrderBy(TemplateIds))

\* C29: getRecurringTransactions returns templates of the table, at most one
\* per description, and for every template of the table the one returned
\* with its description is the most recently created of that description.
C29_LatestPerDescription ==
  LET result == getRecurringTransactions IN
  /\ \A k \in 1 .. Len(result) : result[k] \in TemplateIds
  /\ \A k, l \in 1 .. Len(result) :
       k # l => recurring_transactions[result[k]].description
                  # recurring_transactions[result[l]].description
  /\ \A id \in TemplateIds :
       \E k \in 1 .. Len(result) :
         /\ recurring_transactions[result[k]].description
              = recurring_transactions[id].description
         /\ result[k] >= id

\* two templates of one description exist and only the later is returned
C29_Witness ==
  /\ Len(recurring_transactions) = 2
  /\ recurring_transactions[1].description = recurring_transactions[2].description
  /\ getRecurringTransactions = <<2>>

\* C30: when a creation of a template has thrown, the store holds neither
\* the template row of that call nor a transaction linked to it.
C30_NoOrphanOnFailure ==
  \A c \in Callers :
    (calls[c].op \in {"create", "createFirst"} /\ calls[c].pc = "failed")
      => /\ calls[c].recurring.id \notin TemplateIds
         /\ DatesOf(calls[c].recurring.id) = {}

====
